---- MODULE Spec2Model ----
(***************************************************************************)
(* Model of src/src/repeat_donations.py: the streaming repeat-donor        *)
(* aggregation of get_repeat_donations and the helpers it calls.           *)
(*                                                                         *)
(* Text is a tuple of one-character strings, so that slicing, length and   *)
(* parsing are computed rather than assumed.  An input line is the list    *)
(* of its '|'-separated fields (the `values` of read_dict).  An amount is  *)
(* a number of cents; the amount texts of the model are multiples of 0.25  *)
(* with at most two decimals, for which Python's float parse and float     *)
(* sums are exact.  The rank of nearest_rank_percentile is computed in     *)
(* IEEE-754 double precision, as Python computes it.                       *)
(***************************************************************************)
EXTENDS Integers, Sequences, FiniteSets, TLC

(***************************************************************************)
(* Bounds                                                                  *)
(***************************************************************************)
MaxStream == 4        \* lines read from the input in one run
MaxBuf == 2           \* largest buffer_size tried
MaxLen == 26          \* longest list given to nearest_rank_percentile alone
MaxSum == 120         \* get_output_str alone: every sum up to this many cents

(***************************************************************************)
(* Text                                                                    *)
(***************************************************************************)
Digits == <<"0", "1", "2", "3", "4", "5", "6", "7", "8", "9">>

IsDigit(c) == \E k \in 1..10 : Digits[k] = c

DigitVal(c) == (CHOOSE k \in 1..10 : Digits[k] = c) - 1

AllDigits(s) == Len(s) > 0 /\ \A k \in 1..Len(s) : IsDigit(s[k])

RECURSIVE DigitsVal(_)
DigitsVal(s) ==
    IF Len(s) = 0 THEN 0
    ELSE 10 * DigitsVal(SubSeq(s, 1, Len(s) - 1)) + DigitVal(s[Len(s)])

\* s[:k]
Prefix(s, k) == SubSeq(s, 1, IF k < Len(s) THEN k ELSE Len(s))

\* s[-k:]
Suffix(s, k) == SubSeq(s, IF Len(s) > k THEN Len(s) - k + 1 ELSE 1, Len(s))

\* '%d' % n, n >= 0
RECURSIVE IntToStr(_)
IntToStr(n) ==
    IF n < 10 THEN <<Digits[n + 1]>>
    ELSE IntToStr(n \div 10) \o <<Digits[(n % 10) + 1]>>

IsSpace(c) == c = " " \/ c = "\n"

\* s.strip()
Strip(s) ==
    LET ink == {k \in 1..Len(s) : ~IsSpace(s[k])}
    IN  IF ink = {} THEN <<>>
        ELSE SubSeq(s, CHOOSE k \in ink : \A j \in ink : k <= j,
                       CHOOSE k \in ink : \A j \in ink : k >= j)

\* int(s): a non-empty run of decimal digits between optional white space,
\* else ValueError
PyInt(s) ==
    IF AllDigits(Strip(s)) THEN [ok |-> TRUE, val |-> DigitsVal(Strip(s))]
    ELSE [ok |-> FALSE, val |-> 0]

DotAt(s) == IF \E k \in 1..Len(s) : s[k] = "."
            THEN CHOOSE k \in 1..Len(s) : s[k] = "." /\ \A j \in 1..(k - 1) : s[j] # "."
            ELSE 0

\* float(s) in cents: digits, optionally a point and at most two decimals;
\* anything else is a ValueError
PyFloat(s) ==
    LET d == DotAt(s)
        ip == IF d = 0 THEN s ELSE SubSeq(s, 1, d - 1)
        fp == IF d = 0 THEN <<>> ELSE SubSeq(s, d + 1, Len(s))
        f2 == IF Len(fp) = 0 THEN 0
              ELSE IF Len(fp) = 1 THEN 10 * DigitsVal(fp) ELSE DigitsVal(fp)
    IN  IF AllDigits(ip) /\ Len(fp) <= 2 /\ (Len(fp) = 0 \/ AllDigits(fp))
        THEN [ok |-> TRUE, val |-> 100 * DigitsVal(ip) + f2]
        ELSE [ok |-> FALSE, val |-> 0]

\* a % b with Python's sign rule (the result has the sign of b), a >= 0, b # 0
PyMod(a, b) ==
    IF b > 0 THEN a % b
    ELSE LET m == a % (0 - b) IN IF m = 0 THEN 0 ELSE m + b

(***************************************************************************)
(* IEEE-754 double precision, for p / 100 * len(a).  A double is           *)
(* [hi, mid, lo, exp]: its 53-bit significand is hi * 2^36 + mid * 2^18 +  *)
(* lo with 2^16 <= hi < 2^17 and mid, lo < 2^18, and its value is the      *)
(* significand times 2^(exp - 52).  Every step rounds to nearest, ties to  *)
(* even, as the hardware does.                                             *)
(***************************************************************************)
Limb == 262144        \* 2^18
TopLimb == 131072     \* 2^17

\* the number of bits of v, 0 < v < 2^30
BitLen(v) == CHOOSE L \in 1..30 : 2^(L - 1) <= v /\ v < 2^L

\* the significand plus one (when `up`), renormalised
RoundUp(hi, mid, lo, exp, up) ==
    LET lo1 == IF up THEN lo + 1 ELSE lo
        mid1 == mid + lo1 \div Limb
        hi1 == hi + mid1 \div Limb
    IN  IF hi1 = TopLimb
        THEN [hi |-> TopLimb \div 2, mid |-> 0, lo |-> 0, exp |-> exp + 1]
        ELSE [hi |-> hi1, mid |-> mid1 % Limb, lo |-> lo1 % Limb, exp |-> exp]

\* p / d as a double, 0 < p <= d < 2^13 (int / int is correctly rounded)
FloatDiv(p, d) ==
    IF p = d THEN [hi |-> TopLimb \div 2, mid |-> 0, lo |-> 0, exp |-> 0]
    ELSE LET k0 == CHOOSE k \in 1..13 : p * 2^k >= d /\ p * 2^(k - 1) < d
             r0 == p * 2^(k0 - 1)             \* r0 / d is in [1/2, 1)
             hi == (r0 * TopLimb) \div d
             r1 == (r0 * TopLimb) % d
             mid == (r1 * Limb) \div d
             r2 == (r1 * Limb) % d
             lo == (r2 * Limb) \div d
             r3 == (r2 * Limb) % d
             up == 2 * r3 > d \/ (2 * r3 = d /\ lo % 2 = 1)
         IN  RoundUp(hi, mid, lo, 0 - k0, up)

\* x * n as a double, n an integer with 0 < n < 2^12
FloatMulNat(x, n) ==
    LET l0 == x.lo * n
        m0 == x.mid * n + l0 \div Limb
        h0 == x.hi * n + m0 \div Limb
        lo0 == l0 % Limb
        mid0 == m0 % Limb
        s == BitLen(h0) - 17                  \* bits beyond the 53 kept
        w == 2^s
        dropped == lo0 % w
        lo == lo0 \div w + (mid0 % w) * (Limb \div w)
        mid == mid0 \div w + (h0 % w) * (Limb \div w)
        hi == h0 \div w
        up == s > 0 /\ (2 * dropped > w \/ (2 * dropped = w /\ lo % 2 = 1))
    IN  RoundUp(hi, mid, lo, x.exp + s, up)

\* int(ceil(x)) for a double 0 < x < 2^17
FloatCeil(x) ==
    IF x.exp < 0 THEN 1
    ELSE LET w == 2^(16 - x.exp)
         IN  x.hi \div w
             + (IF x.hi % w # 0 \/ x.mid # 0 \/ x.lo # 0 THEN 1 ELSE 0)

(***************************************************************************)
(* The pure helpers of repeat_donations.py                                 *)
(***************************************************************************)
FEC_COLS == <<"cmte_id", "amndt_ind", "rpt_tp", "transaction_pgi", "image_num",
              "transaction_tp", "entity_tp", "name", "city", "state", "zip_code",
              "employer", "occupation", "transaction_dt", "transaction_amt",
              "other_id", "tran_id", "file_num", "memo_cd", "memo_text", "sub_id">>

usecols == {"name", "zip_code", "cmte_id", "transaction_amt", "transaction_dt",
            "other_id"}

\* c2i of read_dict (positions count from 1 here)
c2i(c) == CHOOSE k \in 1..Len(FEC_COLS) : FEC_COLS[k] = c

\* values[i] for every used column: an IndexError when the line is too short
read_dict_ok(values) == \A c \in usecols : c2i(c) <= Len(values)

read_dict(values) == [c \in usecols |-> values[c2i(c)]]

skip_input_row(input_row) ==
    \/ Len(input_row["other_id"]) > 1
    \/ Len(input_row["zip_code"]) < 5
    \/ Len(input_row["transaction_dt"]) # 8
    \/ Len(input_row["name"]) = 0
    \/ Len(input_row["cmte_id"]) = 0
    \/ Len(input_row["transaction_amt"]) = 0

\* int(...) and float(...) of clean_input_row raise ValueError on other text
clean_input_row_ok(input_row) ==
    /\ PyInt(Suffix(input_row["transaction_dt"], 4)).ok
    /\ PyFloat(input_row["transaction_amt"]).ok

\* faulty variant: the zip code is made a number
clean_input_row_zip_number(input_row) ==
    [name |-> input_row["name"],
     cmte_id |-> input_row["cmte_id"],
     other_id |-> input_row["other_id"],
     transaction_dt |-> input_row["transaction_dt"],
     zip_code |-> IntToStr(DigitsVal(Prefix(input_row["zip_code"], 5))),
     year |-> PyInt(Suffix(input_row["transaction_dt"], 4)).val,
     transaction_amt |-> PyFloat(input_row["transaction_amt"]).val]

\* faulty variant: the zip code is kept whole
clean_input_row_full_zip(input_row) ==
    [name |-> input_row["name"],
     cmte_id |-> input_row["cmte_id"],
     other_id |-> input_row["other_id"],
     transaction_dt |-> input_row["transaction_dt"],
     zip_code |-> input_row["zip_code"],
     year |-> PyInt(Suffix(input_row["transaction_dt"], 4)).val,
     transaction_amt |-> PyFloat(input_row["transaction_amt"]).val]

clean_input_row(input_row) ==
    [name |-> input_row["name"],
     cmte_id |-> input_row["cmte_id"],
     other_id |-> input_row["other_id"],
     transaction_dt |-> input_row["transaction_dt"],
     zip_code |-> Prefix(input_row["zip_code"], 5),
     year |-> PyInt(Suffix(input_row["transaction_dt"], 4)).val,
     transaction_amt |-> PyFloat(input_row["transaction_amt"]).val]

input_row_to_campaign_key(input_row) ==
    <<input_row.cmte_id, input_row.zip_code, input_row.year>>

input_row_to_donor_key(input_row) == <<input_row.name, input_row.zip_code>>

CampaignHistory == [amounts |-> <<>>]

\* faulty variant: a new donor starts with a count of one
DonorHistory_counted == [max_year |-> 0, count |-> 1]

DonorHistory == [max_year |-> 0, count |-> 0]

\* d[k] of a defaultdict: the entry, or a fresh one
Lookup(d, k, fresh) == IF k \in DOMAIN d THEN d[k] ELSE fresh

\* faulty variant: the other entries are dropped
Store_alone(d, k, v) == [x \in {k} |-> v]

\* d with d[k] = v, k created when missing
Store(d, k, v) == [j \in (DOMAIN d) \cup {k} |-> IF j = k THEN v ELSE d[j]]

Max(a, b) == IF a >= b THEN a ELSE b

\* faulty variant: the year of the latest record replaces the maximum
update_donor_history_last_year(dnr_hst, input_row) ==
    [max_year |-> input_row.year, count |-> dnr_hst.count + 1]

\* faulty variant: the count is bumped by two
update_donor_history_twice(dnr_hst, input_row) ==
    [max_year |-> Max(dnr_hst.max_year, input_row.year),
     count |-> dnr_hst.count + 2]

update_donor_history(dnr_hst, input_row) ==
    [max_year |-> Max(dnr_hst.max_year, input_row.year),
     count |-> dnr_hst.count + 1]

\* faulty variant: the year is not compared
skip_donor_history_count_only(dnr_hst, input_row) == dnr_hst.count < 2

\* faulty variant: a first donation already counts as a repeat
skip_donor_history_first(dnr_hst, input_row) ==
    dnr_hst.count < 1 \/ dnr_hst.max_year # input_row.year

skip_donor_history(dnr_hst, input_row) ==
    dnr_hst.count < 2 \/ dnr_hst.max_year # input_row.year

\* faulty variant: the amount is appended
insort_left_append(a, v) == a \o <<v>>

\* bisect.insort_left: before the first element that is >= v
insort_left(a, v) ==
    LET pos == Cardinality({k \in 1..Len(a) : a[k] < v})
    IN  SubSeq(a, 1, pos) \o <<v>> \o SubSeq(a, pos + 1, Len(a))

\* faulty variant: the amount is inserted twice
update_campaign_history_twice(cmp_hst, input_row) ==
    [amounts |-> insort_left(insort_left(cmp_hst.amounts, input_row.transaction_amt),
                             input_row.transaction_amt)]

update_campaign_history(cmp_hst, input_row) ==
    [amounts |-> insort_left(cmp_hst.amounts, input_row.transaction_amt)]

\* int(ceil(p / 100 * len(a))), in double precision
PercentileRank(p, n) == FloatCeil(FloatMulNat(FloatDiv(p, 100), n))

nearest_rank_percentile(a, p) == a[PercentileRank(p, Len(a))]

RECURSIVE SumSeq(_)
\* sum(a)
SumSeq(a) == IF Len(a) = 0 THEN 0 ELSE a[1] + SumSeq(Tail(a))

\* round(v) of a float v given in cents: to nearest, ties to even
PyRound(cents) ==
    LET q == cents \div 100
        r == cents % 100
    IN  IF r < 50 THEN q
        ELSE IF r > 50 THEN q + 1
        ELSE IF q % 2 = 0 THEN q ELSE q + 1

\* faulty variant: the shortest text of the float, as str(v) gives it
Fmt2_shortest(cents) ==
    IntToStr(cents \div 100) \o <<".">>
        \o (IF cents % 10 = 0 THEN <<Digits[((cents % 100) \div 10) + 1]>>
            ELSE <<Digits[((cents % 100) \div 10) + 1], Digits[(cents % 10) + 1]>>)

\* '%.2lf' % v
Fmt2(cents) ==
    IntToStr(cents \div 100) \o <<".">>
        \o <<Digits[((cents % 100) \div 10) + 1], Digits[(cents % 10) + 1]>>

get_output_str(cmte_id, zip_code, year, percentile, sum_, count) ==
    LET s == IF sum_ % 100 # 0 THEN Fmt2(sum_) ELSE IntToStr(sum_ \div 100)
    IN  cmte_id \o <<"|">> \o zip_code \o <<"|">> \o IntToStr(year) \o <<"|">>
        \o IntToStr(PyRound(percentile)) \o <<"|">> \o s \o <<"|">>
        \o IntToStr(count) \o <<"\n">>

(***************************************************************************)
(* The inputs of the model                                                 *)
(***************************************************************************)
SMITH_JOHN == <<"S", "M", "I", "T", "H", ",", " ", "J", "O", "H", "N">>
DOE_JANE == <<"D", "O", "E", ",", " ", "J", "A", "N", "E">>
C001 == <<"C", "0", "0", "1">>
Zip5 == <<"1", "2", "3", "4", "5">>
Zip9 == <<"1", "2", "3", "4", "5", "6", "7", "8", "9">>
Zip02134 == <<"0", "2", "1", "3", "4">>
Date2017 == <<"0", "1", "0", "1", "2", "0", "1", "7">>
Date2016 == <<"1", "2", "3", "1", "2", "0", "1", "6">>
Amt100 == <<"1", "0", "0", ".", "0", "0">>
Amt250_50 == <<"2", "5", "0", ".", "5", "0">>
Amt40 == <<"4", "0">>
Amt75_25 == <<"7", "5", ".", "2", "5">>
AmtBad == <<"1", "x">>
DateBad == <<"0", "1", "0", "1", "2", "0", "1", "x">>
NoText == <<>>

\* line.split('|') of a line with all 21 fields
Line(cmte_id, name, zip_code, transaction_dt, transaction_amt, other_id) ==
    <<cmte_id, NoText, NoText, NoText, NoText, NoText, NoText, name, NoText,
      NoText, zip_code, NoText, NoText, transaction_dt, transaction_amt,
      other_id, NoText, NoText, NoText, NoText, <<"\n">> >>

Smith100 == Line(C001, SMITH_JOHN, Zip5, Date2017, Amt100, NoText)
Smith250 == Line(C001, SMITH_JOHN, Zip5, Date2017, Amt250_50, NoText)
Smith2016 == Line(C001, SMITH_JOHN, Zip9, Date2016, Amt40, NoText)
Doe75 == Line(C001, DOE_JANE, Zip5, Date2017, Amt75_25, NoText)
OtherId1 == Line(C001, SMITH_JOHN, Zip5, Date2017, Amt100, <<"X">>)
OtherId2 == Line(C001, SMITH_JOHN, Zip5, Date2017, Amt100, <<"C", "9">>)
BadAmount == Line(C001, SMITH_JOHN, Zip5, Date2017, AmtBad, NoText)
BadDate == Line(C001, SMITH_JOHN, Zip5, DateBad, Amt100, NoText)
\* a line cut after its 15th field
ShortLine == SubSeq(Smith100, 1, 15)

InputLines == {Smith100, Smith250, Smith2016, Doe75, OtherId1, OtherId2,
               BadAmount, BadDate, ShortLine}

\* lines of one donor whose zips are 5 and 9 characters long and start alike,
\* with and without a leading zero
Zip021341234 == <<"0", "2", "1", "3", "4", "1", "2", "3", "4">>
SmithZip9 == Line(C001, SMITH_JOHN, Zip9, Date2017, Amt250_50, NoText)
Leading5 == Line(C001, SMITH_JOHN, Zip02134, Date2017, Amt40, NoText)
Leading9 == Line(C001, SMITH_JOHN, Zip021341234, Date2017, Amt75_25, NoText)

ZipLines == {Smith100, SmithZip9, Leading5, Leading9, OtherId2, BadAmount, ShortLine}

AllLines == InputLines \cup ZipLines

\* the percentile file: its lines
PercentileFiles == {<< <<"5", "0", "\n">> >>, << <<"x", "\n">> >>, <<>>}

BufferSizes == 0..MaxBuf

(***************************************************************************)
(* get_repeat_donations as a state machine                                 *)
(***************************************************************************)
VARIABLES
    pc,             \* "start", "streaming", "done" or "error"
    lines,          \* the lines the input file of this run is made of
    err,            \* the exception that ended the run, "" when none
    percentile_fp,  \* argument: the lines of the percentile file
    buffer_size,    \* argument
    percentile,     \* the percentile read at line 259
    input_fp,       \* the lines read from the input so far, in order
    i,              \* the loop index of line 271, Unbound before the first line
    cmp_hsts,       \* campaign key -> CampaignHistory
    dnr_hsts,       \* donor key -> DonorHistory
    buffer_cnt,
    buffer_str,
    output_fp,      \* the strings written to the output, one per write
    emitted,        \* history: the output rows built at line 295, in order,
                    \* each with the loop index of its input line
    fn_a, fn_p,     \* nearest_rank_percentile on its own: the arguments
    fn_args,        \* get_output_str on its own: the arguments
    fn_out          \* and the value returned

vars == <<pc, lines, err, percentile_fp, buffer_size, percentile, input_fp, i, cmp_hsts,
          dnr_hsts, buffer_cnt, buffer_str, output_fp, emitted, fn_a, fn_p, fn_args,
          fn_out>>

fn_vars == <<fn_a, fn_p, fn_args, fn_out>>

Unbound == -1

EmptyMap == [k \in {} |-> 0]

Init ==
    /\ pc = "start"
    /\ lines = InputLines
    /\ err = ""
    /\ percentile_fp \in PercentileFiles
    /\ buffer_size \in BufferSizes
    /\ percentile = 0
    /\ input_fp = <<>>
    /\ i = Unbound
    /\ cmp_hsts = EmptyMap
    /\ dnr_hsts = EmptyMap
    /\ buffer_cnt = 0
    /\ buffer_str = <<>>
    /\ output_fp = <<>>
    /\ emitted = <<>>
    /\ fn_a = <<>>
    /\ fn_p = 0
    /\ fn_args = <<>>
    /\ fn_out = 0

Raise(e) == pc' = "error" /\ err' = e

\* lines 249-269: the percentile is read and the maps and the buffer are set up
Start ==
    /\ pc = "start"
    /\ Len(percentile_fp) > 0
    /\ PyInt(percentile_fp[1]).ok
    /\ percentile' = PyInt(percentile_fp[1]).val
    /\ pc' = "streaming"
    /\ UNCHANGED <<err, lines, percentile_fp, buffer_size, input_fp, i, cmp_hsts, dnr_hsts,
                   buffer_cnt, buffer_str, output_fp, emitted, fn_vars>>

\* line 259 raises: next() on an empty file, or int() on other text
StartFails ==
    /\ pc = "start"
    /\ \/ Len(percentile_fp) = 0 /\ Raise("StopIteration")
       \/ Len(percentile_fp) > 0 /\ ~PyInt(percentile_fp[1]).ok /\ Raise("ValueError")
    /\ UNCHANGED <<lines, percentile_fp, buffer_size, percentile, input_fp, i, cmp_hsts,
                   dnr_hsts, buffer_cnt, buffer_str, output_fp, emitted, fn_vars>>

\* the loop of line 271 takes one more line from the input
Reads(values) ==
    /\ pc = "streaming"
    /\ Len(input_fp) < MaxStream
    /\ input_fp' = Append(input_fp, values)

\* read_dict raises inside the generator: i is not assigned
ParseError ==
    \E values \in lines :
        /\ Reads(values)
        /\ ~read_dict_ok(values)
        /\ Raise("IndexError")
        /\ UNCHANGED <<lines, percentile_fp, buffer_size, percentile, i, cmp_hsts, dnr_hsts,
                       buffer_cnt, buffer_str, output_fp, emitted, fn_vars>>

\* lines 274-275
SkipRow ==
    \E values \in lines :
        /\ Reads(values)
        /\ read_dict_ok(values)
        /\ skip_input_row(read_dict(values))
        /\ i' = Len(input_fp)
        /\ UNCHANGED <<pc, err, lines, percentile_fp, buffer_size, percentile, cmp_hsts,
                       dnr_hsts, buffer_cnt, buffer_str, output_fp, emitted, fn_vars>>

\* faulty variant: the abort still writes the buffer out
NormalizationError_flushes ==
    \E values \in lines :
        /\ Reads(values)
        /\ read_dict_ok(values)
        /\ ~skip_input_row(read_dict(values))
        /\ ~clean_input_row_ok(read_dict(values))
        /\ i' = Len(input_fp)
        /\ Raise("ValueError")
        /\ output_fp' = Append(output_fp, buffer_str)
        /\ UNCHANGED <<lines, percentile_fp, buffer_size, percentile, cmp_hsts, dnr_hsts,
                       buffer_cnt, buffer_str, emitted, fn_vars>>

\* line 278 raises
NormalizationError ==
    \E values \in lines :
        /\ Reads(values)
        /\ read_dict_ok(values)
        /\ ~skip_input_row(read_dict(values))
        /\ ~clean_input_row_ok(read_dict(values))
        /\ i' = Len(input_fp)
        /\ Raise("ValueError")
        /\ UNCHANGED <<lines, percentile_fp, buffer_size, percentile, cmp_hsts, dnr_hsts,
                       buffer_cnt, buffer_str, output_fp, emitted, fn_vars>>

\* lines 278-289: the donor's history is updated and the row is dropped
SkipDonor ==
    \E values \in lines :
        /\ Reads(values)
        /\ read_dict_ok(values)
        /\ ~skip_input_row(read_dict(values))
        /\ clean_input_row_ok(read_dict(values))
        /\ LET input_row == clean_input_row(read_dict(values))
               dkey == input_row_to_donor_key(input_row)
               dnr_hst == update_donor_history(Lookup(dnr_hsts, dkey, DonorHistory),
                                               input_row)
           IN  /\ skip_donor_history(dnr_hst, input_row)
               /\ dnr_hsts' = Store(dnr_hsts, dkey, dnr_hst)
        /\ i' = Len(input_fp)
        /\ UNCHANGED <<pc, err, lines, percentile_fp, buffer_size, percentile, cmp_hsts,
                       buffer_cnt, buffer_str, output_fp, emitted, fn_vars>>

\* faulty variant: the buffer is written out by the number of lines read
EmitRow_every_input_line ==
    \E values \in lines :
        /\ Reads(values)
        /\ read_dict_ok(values)
        /\ ~skip_input_row(read_dict(values))
        /\ clean_input_row_ok(read_dict(values))
        /\ LET input_row == clean_input_row(read_dict(values))
               dkey == input_row_to_donor_key(input_row)
               ckey == input_row_to_campaign_key(input_row)
               dnr_hst == update_donor_history(Lookup(dnr_hsts, dkey, DonorHistory),
                                               input_row)
               cmp_hst == update_campaign_history(
                              Lookup(cmp_hsts, ckey, CampaignHistory), input_row)
               row == get_output_str(ckey[1], ckey[2], ckey[3],
                          nearest_rank_percentile(cmp_hst.amounts, percentile),
                          SumSeq(cmp_hst.amounts), Len(cmp_hst.amounts))
           IN  /\ ~skip_donor_history(dnr_hst, input_row)
               /\ dnr_hsts' = Store(dnr_hsts, dkey, dnr_hst)
               /\ cmp_hsts' = Store(cmp_hsts, ckey, cmp_hst)
               /\ emitted' = Append(emitted, [i |-> Len(input_fp), row |-> row])
               /\ IF buffer_size = 0
                  THEN \* line 302: modulo by zero
                       /\ Raise("ZeroDivisionError")
                       /\ buffer_str' = buffer_str \o row
                       /\ buffer_cnt' = buffer_cnt + 1
                       /\ UNCHANGED output_fp
                  ELSE IF PyMod(Len(input_fp) + 1, buffer_size) = 0
                  THEN /\ output_fp' = Append(output_fp, buffer_str \o row)
                       /\ buffer_str' = <<>>
                       /\ buffer_cnt' = 0
                       /\ UNCHANGED <<pc, err>>
                  ELSE /\ buffer_str' = buffer_str \o row
                       /\ buffer_cnt' = buffer_cnt + 1
                       /\ UNCHANGED <<pc, err, output_fp>>
        /\ i' = Len(input_fp)
        /\ UNCHANGED <<lines, percentile_fp, buffer_size, percentile, fn_vars>>

\* lines 278-306: the row of a repeat donor is aggregated, formatted and
\* buffered, and the buffer is written out when it is full
EmitRow ==
    \E values \in lines :
        /\ Reads(values)
        /\ read_dict_ok(values)
        /\ ~skip_input_row(read_dict(values))
        /\ clean_input_row_ok(read_dict(values))
        /\ LET input_row == clean_input_row(read_dict(values))
               dkey == input_row_to_donor_key(input_row)
               ckey == input_row_to_campaign_key(input_row)
               dnr_hst == update_donor_history(Lookup(dnr_hsts, dkey, DonorHistory),
                                               input_row)
               cmp_hst == update_campaign_history(
                              Lookup(cmp_hsts, ckey, CampaignHistory), input_row)
               row == get_output_str(ckey[1], ckey[2], ckey[3],
                          nearest_rank_percentile(cmp_hst.amounts, percentile),
                          SumSeq(cmp_hst.amounts), Len(cmp_hst.amounts))
           IN  /\ ~skip_donor_history(dnr_hst, input_row)
               /\ dnr_hsts' = Store(dnr_hsts, dkey, dnr_hst)
               /\ cmp_hsts' = Store(cmp_hsts, ckey, cmp_hst)
               /\ emitted' = Append(emitted, [i |-> Len(input_fp), row |-> row])
               /\ IF buffer_size = 0
                  THEN \* line 302: modulo by zero
                       /\ Raise("ZeroDivisionError")
                       /\ buffer_str' = buffer_str \o row
                       /\ buffer_cnt' = buffer_cnt + 1
                       /\ UNCHANGED output_fp
                  ELSE IF PyMod(buffer_cnt + 1, buffer_size) = 0
                  THEN /\ output_fp' = Append(output_fp, buffer_str \o row)
                       /\ buffer_str' = <<>>
                       /\ buffer_cnt' = 0
                       /\ UNCHANGED <<pc, err>>
                  ELSE /\ buffer_str' = buffer_str \o row
                       /\ buffer_cnt' = buffer_cnt + 1
                       /\ UNCHANGED <<pc, err, output_fp>>
        /\ i' = Len(input_fp)
        /\ UNCHANGED <<lines, percentile_fp, buffer_size, percentile, fn_vars>>

\* faulty variant: the run ends without the last write
EndOfInput_no_flush ==
    /\ pc = "streaming"
    /\ IF i = Unbound
       THEN Raise("UnboundLocalError")
       ELSE pc' = "done" /\ UNCHANGED err
    /\ UNCHANGED <<lines, percentile_fp, buffer_size, percentile, input_fp, i, cmp_hsts,
                   dnr_hsts, buffer_cnt, buffer_str, output_fp, emitted, fn_vars>>

\* lines 308-310, the input being exhausted: the print of line 309 reads i,
\* which no iteration has bound when the input had no line
EndOfInput ==
    /\ pc = "streaming"
    /\ IF i = Unbound
       THEN Raise("UnboundLocalError") /\ UNCHANGED output_fp
       ELSE /\ output_fp' = Append(output_fp, buffer_str)
            /\ pc' = "done"
            /\ UNCHANGED err
    /\ UNCHANGED <<lines, percentile_fp, buffer_size, percentile, input_fp, i, cmp_hsts,
                   dnr_hsts, buffer_cnt, buffer_str, emitted, fn_vars>>

Next ==
    \/ Start
    \/ StartFails
    \/ ParseError
    \/ SkipRow
    \/ NormalizationError
    \/ SkipDonor
    \/ EmitRow
    \/ EndOfInput

Spec == Init /\ [][Next]_vars

\* the same runs on the input lines that differ by their zip codes
InitZip ==
    /\ pc = "start"
    /\ lines = ZipLines
    /\ err = ""
    /\ percentile_fp \in PercentileFiles
    /\ buffer_size \in BufferSizes
    /\ percentile = 0
    /\ input_fp = <<>>
    /\ i = Unbound
    /\ cmp_hsts = EmptyMap
    /\ dnr_hsts = EmptyMap
    /\ buffer_cnt = 0
    /\ buffer_str = <<>>
    /\ output_fp = <<>>
    /\ emitted = <<>>
    /\ fn_a = <<>>
    /\ fn_p = 0
    /\ fn_args = <<>>
    /\ fn_out = 0

SpecZip == InitZip /\ [][Next]_vars

(***************************************************************************)
(* nearest_rank_percentile on its own, on ascending lists                  *)
(***************************************************************************)
PercentileLists ==
    {[k \in 1..n |-> 10 * k] : n \in 1..MaxLen}
        \cup {[k \in 1..n |-> 10 + 5 * (k \div 2)] : n \in 1..MaxLen}

InitPercentile ==
    /\ pc = "call"
    /\ lines = {}
    /\ err = ""
    /\ percentile_fp = <<>>
    /\ buffer_size = 1
    /\ percentile = 0
    /\ input_fp = <<>>
    /\ i = Unbound
    /\ cmp_hsts = EmptyMap
    /\ dnr_hsts = EmptyMap
    /\ buffer_cnt = 0
    /\ buffer_str = <<>>
    /\ output_fp = <<>>
    /\ emitted = <<>>
    /\ fn_a \in PercentileLists
    /\ fn_p \in 1..100
    /\ fn_args = <<>>
    /\ fn_out = 0

CallPercentile ==
    /\ pc = "call"
    /\ fn_out' = nearest_rank_percentile(fn_a, fn_p)
    /\ pc' = "returned"
    /\ UNCHANGED <<err, lines, percentile_fp, buffer_size, percentile, input_fp, i, cmp_hsts,
                   dnr_hsts, buffer_cnt, buffer_str, output_fp, emitted, fn_a, fn_p,
                   fn_args>>

NextPercentile == CallPercentile

SpecPercentile == InitPercentile /\ [][NextPercentile]_vars

(***************************************************************************)
(* get_output_str on its own                                               *)
(***************************************************************************)
\* the sums tried, in cents: every amount up to MaxSum cents and three
\* larger ones
Sums == (0..MaxSum) \cup {10000, 25050, 35075}

\* (cmte_id, zip_code, year, percentile, sum_, count), the percentile in cents
OutputArgs ==
    {C001} \X {Zip5, Zip02134} \X {2017} \X {50, 149, 150, 250, 25050} \X Sums
        \X {1, 12}

InitOutputStr ==
    /\ pc = "format"
    /\ lines = {}
    /\ err = ""
    /\ percentile_fp = <<>>
    /\ buffer_size = 1
    /\ percentile = 0
    /\ input_fp = <<>>
    /\ i = Unbound
    /\ cmp_hsts = EmptyMap
    /\ dnr_hsts = EmptyMap
    /\ buffer_cnt = 0
    /\ buffer_str = <<>>
    /\ output_fp = <<>>
    /\ emitted = <<>>
    /\ fn_a = <<>>
    /\ fn_p = 0
    /\ fn_args \in OutputArgs
    /\ fn_out = 0

CallOutputStr ==
    /\ pc = "format"
    /\ fn_out' = get_output_str(fn_args[1], fn_args[2], fn_args[3], fn_args[4],
                                fn_args[5], fn_args[6])
    /\ pc' = "formatted"
    /\ UNCHANGED <<err, lines, percentile_fp, buffer_size, percentile, input_fp, i, cmp_hsts,
                   dnr_hsts, buffer_cnt, buffer_str, output_fp, emitted, fn_a, fn_p,
                   fn_args>>

NextOutputStr == CallOutputStr

SpecOutputStr == InitOutputStr /\ [][NextOutputStr]_vars

TypeOK ==
    /\ pc \in {"start", "streaming", "done", "error", "call", "returned", "format",
              "formatted"}
    /\ i \in {Unbound} \cup (0..(MaxStream - 1))
    /\ Len(input_fp) <= MaxStream
    /\ buffer_cnt \in 0..MaxStream

(***************************************************************************)
(* The input read so far, as the data model describes it                   *)
(***************************************************************************)
\* the lines whose loop iteration ran; a line on which read_dict or
\* clean_input_row raised ended the run instead
Processed ==
    IF pc = "error" /\ err \in {"IndexError", "ValueError"} /\ Len(input_fp) > 0
    THEN SubSeq(input_fp, 1, Len(input_fp) - 1)
    ELSE input_fp

\* what the data model says of each line: whether it passed the validator,
\* and its 5-character zip, year, amount in cents, donor key and campaign key
RecordFacts ==
    [values \in AllLines |->
        IF read_dict_ok(values) /\ ~skip_input_row(read_dict(values))
        THEN LET r == read_dict(values)
                 zip5 == Prefix(r["zip_code"], 5)
                 year == PyInt(Suffix(r["transaction_dt"], 4)).val
             IN  [validated |-> TRUE,
                  cmte_id |-> r["cmte_id"],
                  zip5 |-> zip5,
                  year |-> year,
                  amount |-> PyFloat(r["transaction_amt"]).val,
                  dkey |-> <<r["name"], zip5>>,
                  ckey |-> <<r["cmte_id"], zip5, year>>]
        ELSE [validated |-> FALSE]]

\* the line passed the validator
Validated(values) == RecordFacts[values].validated

RecZip5(values) == RecordFacts[values].zip5

RecYear(values) == RecordFacts[values].year

RecAmount(values) == RecordFacts[values].amount

RecDonorKey(values) == RecordFacts[values].dkey

RecCampaignKey(values) == RecordFacts[values].ckey

\* the validated records among h[1..j] of the donor of h[j]
DonorRecords(h, j) ==
    {m \in 1..j : Validated(h[m]) /\ RecDonorKey(h[m]) = RecDonorKey(h[j])}

\* h[j] is a validated record of a repeat donor in the donor's latest year
Qualifies(h, j) ==
    /\ Validated(h[j])
    /\ Cardinality(DonorRecords(h, j)) >= 2
    /\ \A m \in DonorRecords(h, j) : RecYear(h[m]) <= RecYear(h[j])

\* the qualifying records among h[1..j] with campaign key K
CampaignRecords(h, j, K) ==
    {m \in 1..j : Qualifies(h, m) /\ RecCampaignKey(h[m]) = K}

\* the n-th '|'-separated field of an output row, without the line end
Field(row, n) ==
    LET bars == {k \in 1..Len(row) : row[k] = "|"}
        bar(m) == CHOOSE k \in bars : Cardinality({j \in bars : j < k}) = m - 1
        first == IF n = 1 THEN 1 ELSE bar(n - 1) + 1
        last == IF n = Cardinality(bars) + 1 THEN Len(row) - 1 ELSE bar(n) - 1
    IN  SubSeq(row, first, last)

(***************************************************************************)
(* C1: a record is inserted into its campaign's amounts and a row is       *)
(* emitted for it exactly when it passed the validator and, once           *)
(* update_donor_history has been applied for it, the donor's count is at   *)
(* least 2 and the donor's max_year is the record's year; any other        *)
(* record leaves the campaign histories and the output alone.              *)
(***************************************************************************)
C1_GateDecidesInsertion ==
    [][Len(input_fp') = Len(input_fp) + 1 =>
        LET values == input_fp'[Len(input_fp')]
            dkey == RecDonorKey(values)
            ckey == RecCampaignKey(values)
            updated == Lookup(dnr_hsts', dkey, DonorHistory).count
                           = Lookup(dnr_hsts, dkey, DonorHistory).count + 1
            gate == /\ Lookup(dnr_hsts', dkey, DonorHistory).count >= 2
                    /\ Lookup(dnr_hsts', dkey, DonorHistory).max_year = RecYear(values)
        IN  IF Validated(values) /\ updated /\ gate
            THEN /\ Len(emitted') = Len(emitted) + 1
                 /\ Len(Lookup(cmp_hsts', ckey, CampaignHistory).amounts)
                        = Len(Lookup(cmp_hsts, ckey, CampaignHistory).amounts) + 1
                 /\ \E k \in 1..Len(cmp_hsts'[ckey].amounts) :
                        cmp_hsts'[ckey].amounts[k] = RecAmount(values)
            ELSE emitted' = emitted /\ cmp_hsts' = cmp_hsts]_vars

\* a row was emitted, and a validated record of a donor with two records
\* was dropped for its year
C1_Witness ==
    /\ Len(emitted) >= 1
    /\ \E j \in 1..Len(Processed) :
           /\ Validated(Processed[j])
           /\ Cardinality(DonorRecords(Processed, j)) >= 2
           /\ ~Qualifies(Processed, j)

(***************************************************************************)
(* C2 (as claimed): after SMITH, JOHN / 12345 gave 100.00 and then 250.50  *)
(* to C001 in 2017, the row emitted for the second record has the sum      *)
(* 350.50 and the count 2, both donations being in the campaign's amounts. *)
(***************************************************************************)
C2_BothDonationsCounted ==
    input_fp = <<Smith100, Smith250>> =>
        /\ Len(emitted) = 1
        /\ Field(emitted[1].row, 1) = C001
        /\ Field(emitted[1].row, 2) = Zip5
        /\ Field(emitted[1].row, 3) = <<"2", "0", "1", "7">>
        /\ Field(emitted[1].row, 5) = <<"3", "5", "0", ".", "5", "0">>
        /\ Field(emitted[1].row, 6) = <<"2">>
        /\ Len(cmp_hsts[<<C001, Zip5, 2017>>].amounts) = 2

(***************************************************************************)
(* C2 (amended): after those two records the one row emitted is            *)
(* C001|12345|2017|250|250.50|1 and the campaign's amounts hold the second *)
(* donation only: the donor's first record is never aggregated.            *)
(***************************************************************************)
C2_SecondDonationOnly ==
    input_fp = <<Smith100, Smith250>> =>
        /\ Len(emitted) = 1
        /\ emitted[1].i = 1
        /\ emitted[1].row = <<"C", "0", "0", "1", "|", "1", "2", "3", "4", "5", "|",
                              "2", "0", "1", "7", "|", "2", "5", "0", "|",
                              "2", "5", "0", ".", "5", "0", "|", "1", "\n">>
        /\ cmp_hsts[<<C001, Zip5, 2017>>].amounts = <<25050>>

C2_Witness == input_fp = <<Smith100, Smith250>> /\ Len(emitted) = 1

(***************************************************************************)
(* C3 (as claimed): when a row is emitted for campaign key K, the input    *)
(* so far holds at least two validated records of that donor with          *)
(* campaign key K, the current one included.                               *)
(***************************************************************************)
C3_TwiceToSameCampaign ==
    \A e \in 1..Len(emitted) :
        LET j == emitted[e].i + 1
        IN  Cardinality({m \in DonorRecords(input_fp, j) :
                RecCampaignKey(input_fp[m]) = RecCampaignKey(input_fp[j])}) >= 2

(***************************************************************************)
(* C3 (amended): when a row is emitted, the input so far holds at least    *)
(* two validated records of that donor (same name and 5-character zip),    *)
(* the current one included, whatever their campaign keys.                 *)
(***************************************************************************)
C3_TwiceByDonor ==
    \A e \in 1..Len(emitted) :
        Cardinality(DonorRecords(input_fp, emitted[e].i + 1)) >= 2

\* a row was emitted for a donor whose earlier record is of another campaign
C3_Witness ==
    \E e \in 1..Len(emitted) :
        LET j == emitted[e].i + 1
        IN  \E m \in DonorRecords(input_fp, j) :
                RecCampaignKey(input_fp[m]) # RecCampaignKey(input_fp[j])

(***************************************************************************)
(* C4 (as claimed): skip_input_row is true exactly when other_id is        *)
(* non-empty, or the zip has fewer than 5 characters, or the date is not   *)
(* 8 characters long, or the name, the committee id or the amount is       *)
(* empty; and a record with a non-empty other_id changes no ledger and     *)
(* produces no output.                                                     *)
(***************************************************************************)
SkipAsSpecified(input_row) ==
    \/ Len(input_row["other_id"]) > 0
    \/ Len(input_row["zip_code"]) < 5
    \/ Len(input_row["transaction_dt"]) # 8
    \/ Len(input_row["name"]) = 0
    \/ Len(input_row["cmte_id"]) = 0
    \/ Len(input_row["transaction_amt"]) = 0

C4_SkipsAsSpecified ==
    [][Len(input_fp') = Len(input_fp) + 1 =>
        LET values == input_fp'[Len(input_fp')]
        IN  read_dict_ok(values) =>
                /\ skip_input_row(read_dict(values)) <=> SkipAsSpecified(read_dict(values))
                /\ Len(read_dict(values)["other_id"]) > 0 =>
                       UNCHANGED <<cmp_hsts, dnr_hsts, emitted, output_fp, buffer_str>>]_vars

(***************************************************************************)
(* C5: after any prefix of the input, every campaign's amounts are sorted  *)
(* ascending, as many as the records processed so far with that campaign   *)
(* key that passed the validator and the repeat-donor gate, and they are   *)
(* exactly the multiset of those records' amounts.                         *)
(***************************************************************************)
IsSorted(a) == \A k \in 1..(Len(a) - 1) : a[k] <= a[k + 1]

CampaignKeysSeen ==
    (DOMAIN cmp_hsts)
        \cup {RecCampaignKey(Processed[j]) :
                  j \in {m \in 1..Len(Processed) : Validated(Processed[m])}}

C5_AmountsSortedAndExact ==
    \A K \in CampaignKeysSeen :
        LET a == Lookup(cmp_hsts, K, CampaignHistory).amounts
            recs == CampaignRecords(Processed, Len(Processed), K)
            amts == {a[k] : k \in 1..Len(a)} \cup {RecAmount(Processed[m]) : m \in recs}
        IN  /\ IsSorted(a)
            /\ Len(a) = Cardinality(recs)
            /\ \A v \in amts :
                   Cardinality({k \in 1..Len(a) : a[k] = v})
                       = Cardinality({m \in recs : RecAmount(Processed[m]) = v})

\* the amount inserted last went in front of a larger one
C5_Witness ==
    /\ Len(emitted) >= 2
    /\ LET values == input_fp[emitted[Len(emitted)].i + 1]
           a == cmp_hsts[RecCampaignKey(values)].amounts
       IN  Len(a) >= 2 /\ RecAmount(values) < a[Len(a)]

(***************************************************************************)
(* C6: after any prefix of the input, every donor's count is the number    *)
(* of that donor's records that passed the validator so far and max_year   *)
(* is the largest year among them; and no step decreases a donor's count   *)
(* or max_year.                                                            *)
(***************************************************************************)
DonorKeysSeen ==
    (DOMAIN dnr_hsts)
        \cup {RecDonorKey(Processed[j]) :
                  j \in {m \in 1..Len(Processed) : Validated(Processed[m])}}

RecordsOfDonor(dk) ==
    {m \in 1..Len(Processed) :
        Validated(Processed[m]) /\ RecDonorKey(Processed[m]) = dk}

C6_DonorHistoryExact ==
    /\ [](\A dk \in DonorKeysSeen :
            LET h == Lookup(dnr_hsts, dk, DonorHistory)
                years == {RecYear(Processed[m]) : m \in RecordsOfDonor(dk)}
            IN  /\ h.count = Cardinality(RecordsOfDonor(dk))
                /\ h.max_year \in years
                /\ \A y \in years : y <= h.max_year)
    /\ [][\A dk \in DOMAIN dnr_hsts :
            /\ dk \in DOMAIN dnr_hsts'
            /\ dnr_hsts'[dk].count >= dnr_hsts[dk].count
            /\ dnr_hsts'[dk].max_year >= dnr_hsts[dk].max_year]_vars

\* a donor with two records, one of them from before the donor's max_year
\* and dropped by the gate
C6_Witness ==
    \E dk \in DOMAIN dnr_hsts :
        /\ dnr_hsts[dk].count >= 2
        /\ \E m \in RecordsOfDonor(dk) :
               /\ RecYear(Processed[m]) < dnr_hsts[dk].max_year
               /\ ~Qualifies(Processed, m)
               /\ m >= 2

(***************************************************************************)
(* C7 (as claimed): for an ascending list a of length n >= 1 and p in      *)
(* 1..100, nearest_rank_percentile(a, p) is the element at the 1-indexed   *)
(* position ceil(p * n / 100), which lies in 1..n; for p = 100 it is the   *)
(* largest element, and for p = 50 and a = [10, 20, 30, 40] it is 20.      *)
(***************************************************************************)
C7_NearestRank ==
    pc = "returned" =>
        LET n == Len(fn_a)
            rank == (fn_p * n + 99) \div 100
        IN  /\ rank \in 1..n
            /\ fn_out = fn_a[rank]
            /\ fn_p = 100 => fn_out = fn_a[n]
            /\ (fn_p = 50 /\ fn_a = <<10, 20, 30, 40>>) => fn_out = 20

(***************************************************************************)
(* C8: every emitted row carries the campaign key of its record            *)
(* (committee id, 5-character zip, year), the sum of the amounts inserted  *)
(* so far under that key, the current record included, and their number;   *)
(* amounts inserted under other keys do not enter.                         *)
(***************************************************************************)
RECURSIVE SumAmounts(_, _)
SumAmounts(h, S) ==
    IF S = {} THEN 0
    ELSE LET m == CHOOSE x \in S : TRUE
         IN  RecAmount(h[m]) + SumAmounts(h, S \ {m})

C8_RowCarriesKeySumCount ==
    \A e \in 1..Len(emitted) :
        LET j == emitted[e].i + 1
            values == input_fp[j]
            recs == CampaignRecords(input_fp, j, RecCampaignKey(values))
            row == emitted[e].row
        IN  /\ Field(row, 1) = RecordFacts[values].cmte_id
            /\ Field(row, 2) = RecZip5(values)
            /\ PyInt(Field(row, 3)) = [ok |-> TRUE, val |-> RecYear(values)]
            /\ PyFloat(Field(row, 5)) = [ok |-> TRUE, val |-> SumAmounts(input_fp, recs)]
            /\ PyInt(Field(row, 6)) = [ok |-> TRUE, val |-> Cardinality(recs)]

\* two campaigns hold amounts, and a row was emitted with a count of 2
C8_Witness ==
    /\ Cardinality(DOMAIN cmp_hsts) >= 2
    /\ \E e \in 1..Len(emitted) : Field(emitted[e].row, 6) = <<"2">>

(***************************************************************************)
(* C9: the buffer size does not show in the output: when a run with a      *)
(* positive buffer size completes, the concatenation of everything         *)
(* written is the rows of the qualifying records in input order, as the    *)
(* pipeline without any buffer yields them.                                *)
(***************************************************************************)
RECURSIVE Flatten(_)
Flatten(ss) == IF Len(ss) = 0 THEN <<>> ELSE ss[1] \o Flatten(Tail(ss))

RECURSIVE Unbuffered(_, _, _, _, _)
\* the rows of h[k..], from the ledgers dnr and cmp, with no buffer
Unbuffered(h, k, p, dnr, cmp) ==
    IF k > Len(h) THEN <<>>
    ELSE IF ~Validated(h[k]) \/ ~clean_input_row_ok(read_dict(h[k]))
    THEN Unbuffered(h, k + 1, p, dnr, cmp)
    ELSE LET input_row == clean_input_row(read_dict(h[k]))
             dkey == input_row_to_donor_key(input_row)
             ckey == input_row_to_campaign_key(input_row)
             dnr_hst == update_donor_history(Lookup(dnr, dkey, DonorHistory), input_row)
             cmp_hst == update_campaign_history(Lookup(cmp, ckey, CampaignHistory),
                                                input_row)
         IN  IF skip_donor_history(dnr_hst, input_row)
             THEN Unbuffered(h, k + 1, p, Store(dnr, dkey, dnr_hst), cmp)
             ELSE <<get_output_str(ckey[1], ckey[2], ckey[3],
                        nearest_rank_percentile(cmp_hst.amounts, p),
                        SumSeq(cmp_hst.amounts), Len(cmp_hst.amounts))>>
                  \o Unbuffered(h, k + 1, p, Store(dnr, dkey, dnr_hst),
                                Store(cmp, ckey, cmp_hst))

C9_OutputIndependentOfBuffer ==
    (pc = "done" /\ buffer_size > 0) =>
        /\ Flatten(output_fp) = Flatten(Unbuffered(input_fp, 1, percentile, EmptyMap, EmptyMap))
        /\ {emitted[e].i + 1 : e \in 1..Len(emitted)}
               = {j \in 1..Len(input_fp) : Qualifies(input_fp, j)}
        /\ \A e \in 1..(Len(emitted) - 1) : emitted[e].i < emitted[e + 1].i

\* a completed run with buffer_size 2 that wrote two rows, then one
C9_Witness ==
    /\ pc = "done"
    /\ buffer_size = 2
    /\ Len(emitted) = 3
    /\ Len(output_fp) = 2
    /\ Len(output_fp[2]) > 0

(***************************************************************************)
(* C10 (as claimed): the run leaves the streaming state for the done state *)
(* only when the input is exhausted; on exhaustion, also of an empty       *)
(* input, it writes the buffer out and finishes without error; and then    *)
(* every emitted row has been written.                                     *)
(***************************************************************************)
C10_ExhaustionFlushes ==
    /\ [][/\ (pc = "streaming" /\ pc' = "done") => input_fp' = input_fp
          /\ (pc = "streaming" /\ pc' # "streaming" /\ input_fp' = input_fp) =>
                 /\ pc' = "done"
                 /\ err' = ""
                 /\ output_fp' = Append(output_fp, buffer_str)]_vars
    /\ [](pc = "done" =>
            Flatten(output_fp) = Flatten([e \in 1..Len(emitted) |-> emitted[e].row]))

(***************************************************************************)
(* C11 (as claimed): a configuration error is fatal at startup: when the   *)
(* percentile file is empty or does not hold an integer, or the buffer     *)
(* size is zero or negative, the run never streams: no input line is       *)
(* read, no ledger entry is created and nothing is written.                *)
(***************************************************************************)
ConfigurationError ==
    \/ Len(percentile_fp) = 0
    \/ ~PyInt(percentile_fp[1]).ok
    \/ buffer_size <= 0

C11_ConfigurationErrorAtStartup ==
    ConfigurationError =>
        /\ pc \in {"start", "error"}
        /\ input_fp = <<>>
        /\ dnr_hsts = EmptyMap
        /\ cmp_hsts = EmptyMap
        /\ output_fp = <<>>

(***************************************************************************)
(* C12: a line with too few fields for a requested column, or a validated  *)
(* line whose amount is not a number or whose date does not end in a       *)
(* 4-digit year, aborts the run at that line: the step changes no ledger,  *)
(* emits and writes nothing; after the abort no line is read and nothing   *)
(* is written, the final write included; and what was written is the rows  *)
(* of a prefix of the rows emitted before the failing line.                *)
(***************************************************************************)
\* other_id is the last column read
TooFewFields(values) == Len(values) < c2i("other_id")

NotNormalizable(values) ==
    /\ ~TooFewFields(values)
    /\ Validated(values)
    /\ \/ ~PyFloat(values[c2i("transaction_amt")]).ok
       \/ ~AllDigits(Suffix(values[c2i("transaction_dt")], 4))

Aborted == pc = "error" /\ err \in {"IndexError", "ValueError"} /\ Len(input_fp) > 0

EmittedRows(k) == [e \in 1..k |-> emitted[e].row]

C12_RecordErrorAborts ==
    /\ [][Len(input_fp') = Len(input_fp) + 1 =>
            LET values == input_fp'[Len(input_fp')]
            IN  (TooFewFields(values) \/ NotNormalizable(values)) =>
                    /\ pc' = "error"
                    /\ err' = IF TooFewFields(values) THEN "IndexError" ELSE "ValueError"
                    /\ UNCHANGED <<dnr_hsts, cmp_hsts, emitted, output_fp>>]_vars
    /\ [][pc = "error" => UNCHANGED <<input_fp, dnr_hsts, cmp_hsts, emitted, output_fp>>]_vars
    /\ [](Aborted =>
            /\ \A e \in 1..Len(emitted) : emitted[e].i + 1 < Len(input_fp)
            /\ \E k \in 0..Len(emitted) :
                   /\ Flatten(output_fp) = Flatten(EmittedRows(k))
                   /\ Len(emitted) - k = buffer_cnt)

\* a run aborted by a line while an emitted row was in the buffer, nothing
\* having been written
C12_Witness ==
    /\ Aborted
    /\ Len(emitted) = 1
    /\ buffer_cnt = 1
    /\ output_fp = <<>>

(***************************************************************************)
(* C13: once a donor's max_year is Y, every later record of that donor     *)
(* that passes the validator and is normalized with a year below Y fails   *)
(* the gate: nothing is inserted into any campaign's amounts, no row is    *)
(* emitted or written, the donor's count still goes up by one and          *)
(* max_year stays Y.                                                       *)
(***************************************************************************)
\* the line passes the validator and clean_input_row
Normalizable(values) ==
    Validated(values) /\ ~TooFewFields(values) /\ ~NotNormalizable(values)

C13_EarlierYearNeverQualifies ==
    [][Len(input_fp') = Len(input_fp) + 1 =>
        LET values == input_fp'[Len(input_fp')]
        IN  Normalizable(values) =>
                \A dk \in DOMAIN dnr_hsts :
                    (dk = RecDonorKey(values) /\ RecYear(values) < dnr_hsts[dk].max_year) =>
                        /\ UNCHANGED <<cmp_hsts, emitted, output_fp, buffer_str>>
                        /\ dnr_hsts'[dk].count = dnr_hsts[dk].count + 1
                        /\ dnr_hsts'[dk].max_year = dnr_hsts[dk].max_year]_vars

\* a donor with three records, the last two from before the donor's max_year
C13_Witness ==
    /\ Len(input_fp) >= 3
    /\ LET n == Len(input_fp)
       IN  /\ input_fp[n] = Smith2016 /\ input_fp[n - 1] = Smith2016
           /\ RecDonorKey(Smith2016) \in DOMAIN dnr_hsts
           /\ dnr_hsts[RecDonorKey(Smith2016)] = [max_year |-> 2017, count |-> 3]
           /\ emitted = <<>>

(***************************************************************************)
(* C14: the first record of a donor that passes the validator never        *)
(* changes a campaign history or emits a row; the donor's second such      *)
(* record does so only if its year is the larger of the years of the       *)
(* donor's first two records.                                              *)
(***************************************************************************)
Triggers == cmp_hsts' # cmp_hsts \/ emitted' # emitted \/ output_fp' # output_fp

C14_FirstNeverSecondOnlyLatestYear ==
    [][Len(input_fp') = Len(input_fp) + 1 =>
        LET n == Len(input_fp')
            values == input_fp'[n]
        IN  Validated(values) =>
                LET recs == DonorRecords(input_fp', n)
                IN  /\ Cardinality(recs) = 1 => ~Triggers
                    /\ (Cardinality(recs) = 2 /\ Triggers) =>
                           \A m \in recs : RecYear(input_fp'[m]) <= RecYear(values)]_vars

\* a donor's second record was dropped for its year and another donor's
\* second record was emitted
C14_Witness ==
    /\ Len(input_fp) = 4
    /\ Len(emitted) = 1
    /\ \E j \in 1..4 :
           /\ Validated(input_fp[j])
           /\ Cardinality(DonorRecords(input_fp, j)) = 2
           /\ ~Qualifies(input_fp, j)
           /\ pc = "streaming"
    /\ \E j \in 1..4 :
           /\ Validated(input_fp[j])
           /\ Cardinality(DonorRecords(input_fp, j)) = 2
           /\ emitted[1].i + 1 = j

(***************************************************************************)
(* C15: with a positive buffer size b, a step that reads a line writes to  *)
(* the output exactly when it emits a row and the number of rows emitted   *)
(* becomes a multiple of b; the write is the b rows emitted since the      *)
(* write before; and while streaming the buffer holds fewer than b rows,   *)
(* what was written followed by the buffer being the rows emitted.         *)
(***************************************************************************)
LastRows(em, b) == [k \in 1..b |-> em[Len(em) - b + k].row]

C15_FlushEveryBufferSizeRows ==
    /\ [][(buffer_size > 0 /\ Len(input_fp') = Len(input_fp) + 1) =>
            LET full == /\ Len(emitted') = Len(emitted) + 1
                        /\ Len(emitted') % buffer_size = 0
            IN  IF full
                THEN output_fp' = Append(output_fp, Flatten(LastRows(emitted', buffer_size)))
                ELSE output_fp' = output_fp]_vars
    /\ []((buffer_size > 0 /\ pc = "streaming") =>
            /\ buffer_cnt < buffer_size
            /\ buffer_cnt = Len(emitted) - buffer_size * Len(output_fp)
            /\ Flatten(output_fp) \o buffer_str = Flatten(EmittedRows(Len(emitted))))

\* with buffer_size 2, three rows emitted out of four lines: one write of
\* two rows, one row in the buffer
C15_Witness ==
    /\ pc = "streaming"
    /\ buffer_size = 2
    /\ Len(input_fp) = 4
    /\ Len(emitted) = 3
    /\ Len(output_fp) = 1
    /\ buffer_cnt = 1

(***************************************************************************)
(* C16: get_output_str returns committeeId|zip|year|round(percentile)|     *)
(* sum|count and a line end: six fields, the committee id and the zip as   *)
(* given, the year, the rounded percentile and the count in decimal, and   *)
(* the sum as its whole number without a point when it has no fractional   *)
(* part, else with a point followed by exactly two digits.                 *)
(***************************************************************************)
C16_OutputLineFormat ==
    pc = "formatted" =>
        LET row == fn_out
            sum_ == fn_args[5]
            f == Field(row, 5)
            r == PyInt(Field(row, 4))
        IN  /\ row[Len(row)] = "\n"
            /\ Cardinality({k \in 1..Len(row) : row[k] = "|"}) = 5
            /\ Field(row, 1) = fn_args[1]
            /\ Field(row, 2) = fn_args[2]
            /\ AllDigits(Field(row, 3)) /\ DigitsVal(Field(row, 3)) = fn_args[3]
            /\ AllDigits(Field(row, 4))
            /\ 100 * r.val - fn_args[4] \in -50..50
            /\ AllDigits(Field(row, 6)) /\ DigitsVal(Field(row, 6)) = fn_args[6]
            /\ IF sum_ % 100 = 0
               THEN AllDigits(f) /\ DigitsVal(f) * 100 = sum_
               ELSE /\ DotAt(f) = Len(f) - 2
                    /\ AllDigits(SubSeq(f, 1, Len(f) - 3))
                    /\ AllDigits(SubSeq(f, Len(f) - 1, Len(f)))
                    /\ 100 * DigitsVal(SubSeq(f, 1, Len(f) - 3))
                           + DigitsVal(SubSeq(f, Len(f) - 1, Len(f))) = sum_

\* the sum 250.50 is rendered with two decimals
C16_Witness ==
    /\ pc = "formatted"
    /\ fn_args[5] = 25050
    /\ Field(fn_out, 5) = <<"2", "5", "0", ".", "5", "0">>

(***************************************************************************)
(* C17: a step that reads a line changes only the entries of the line's    *)
(* own keys: a line rejected by the validator changes no ledger and emits  *)
(* nothing; a validated line that fails the repeat-donor gate changes the  *)
(* DonorHistory of its donor key and nothing else; a qualifying line       *)
(* changes the DonorHistory of its donor key and the CampaignHistory of    *)
(* its campaign key and no other entry. No step removes a ledger entry or  *)
(* an amount from a campaign's amounts.                                    *)
(***************************************************************************)
\* the map d2 is the map d1 but for the entries of the keys in ks
SameBut(d1, d2, ks) ==
    /\ DOMAIN d1 \subseteq DOMAIN d2
    /\ DOMAIN d2 \subseteq DOMAIN d1 \cup ks
    /\ \A k \in DOMAIN d1 \ ks : d2[k] = d1[k]

\* a is b, or b without one of its elements
NothingRemoved(a, b) ==
    \/ b = a
    \/ \E k \in 1..Len(b) : a = SubSeq(b, 1, k - 1) \o SubSeq(b, k + 1, Len(b))

C17_OnlyOwnEntriesChange ==
    [][/\ Len(input_fp') = Len(input_fp) + 1 =>
            LET n == Len(input_fp')
                values == input_fp'[n]
            IN  IF ~Validated(values)
                THEN UNCHANGED <<dnr_hsts, cmp_hsts, emitted, output_fp, buffer_str>>
                ELSE IF ~Normalizable(values)
                THEN UNCHANGED <<dnr_hsts, cmp_hsts, emitted, output_fp, buffer_str>>
                ELSE IF ~Qualifies(input_fp', n)
                THEN /\ SameBut(dnr_hsts, dnr_hsts', {RecDonorKey(values)})
                     /\ dnr_hsts'[RecDonorKey(values)]
                            # Lookup(dnr_hsts, RecDonorKey(values), DonorHistory)
                     /\ UNCHANGED <<cmp_hsts, emitted, output_fp, buffer_str>>
                ELSE /\ SameBut(dnr_hsts, dnr_hsts', {RecDonorKey(values)})
                     /\ SameBut(cmp_hsts, cmp_hsts', {RecCampaignKey(values)})
                     /\ RecCampaignKey(values) \in DOMAIN cmp_hsts'
                     /\ Len(emitted') = Len(emitted) + 1
       /\ DOMAIN dnr_hsts \subseteq DOMAIN dnr_hsts'
       /\ DOMAIN cmp_hsts \subseteq DOMAIN cmp_hsts'
       /\ \A K \in DOMAIN cmp_hsts :
              NothingRemoved(cmp_hsts[K].amounts, cmp_hsts'[K].amounts)]_vars

\* two donors and two campaigns have entries: records of each outcome but
\* rejection were processed while other entries existed
C17_Witness ==
    /\ Cardinality(DOMAIN dnr_hsts) = 2
    /\ Cardinality(DOMAIN cmp_hsts) = 2
    /\ Len(emitted) = 2

(***************************************************************************)
(* C18: the keys hold the first 5 characters of the zip, as text: the      *)
(* DonorHistory under (name, zip5) counts every validated record of that   *)
(* name whose zip starts with zip5, whatever follows ('12345' and          *)
(* '123456789' are one donor); the CampaignHistory under (committee,       *)
(* zip5, year) holds one amount for each qualifying record of that         *)
(* committee and year whose zip starts with zip5; and every emitted row    *)
(* carries these 5 characters, leading zeros included.                     *)
(***************************************************************************)
RawName(values) == values[c2i("name")]

RawZip(values) == values[c2i("zip_code")]

RawCmte(values) == values[c2i("cmte_id")]

\* the first n characters of s are the text z
StartsWith(s, z) == Len(s) >= Len(z) /\ SubSeq(s, 1, Len(z)) = z

C18_KeysUseFiveCharZip ==
    LET valid == {j \in 1..Len(Processed) : Validated(Processed[j])}
    IN  /\ \A j \in valid :
               \E dk \in DOMAIN dnr_hsts :
                   dk[1] = RawName(Processed[j]) /\ StartsWith(RawZip(Processed[j]), dk[2])
        /\ \A dk \in DOMAIN dnr_hsts :
               /\ Len(dk[2]) = 5
               /\ dnr_hsts[dk].count
                      = Cardinality({j \in valid :
                            /\ RawName(Processed[j]) = dk[1]
                            /\ StartsWith(RawZip(Processed[j]), dk[2])})
        /\ \A ck \in DOMAIN cmp_hsts :
               /\ Len(ck[2]) = 5
               /\ Len(cmp_hsts[ck].amounts)
                      = Cardinality({j \in valid :
                            /\ Qualifies(Processed, j)
                            /\ RawCmte(Processed[j]) = ck[1]
                            /\ StartsWith(RawZip(Processed[j]), ck[2])
                            /\ RecYear(Processed[j]) = ck[3]})
        /\ \A e \in 1..Len(emitted) :
               /\ Len(Field(emitted[e].row, 2)) = 5
               /\ StartsWith(RawZip(input_fp[emitted[e].i + 1]), Field(emitted[e].row, 2))

\* the donor gave under 02134, 021341234 and 02134: one DonorHistory, one
\* CampaignHistory with the last two amounts, and a row with the zip 02134
C18_Witness ==
    /\ Len(input_fp) >= 3
    /\ input_fp[1] = Leading5 /\ input_fp[2] = Leading9 /\ input_fp[3] = Leading5
    /\ DOMAIN dnr_hsts = {<<SMITH_JOHN, Zip02134>>}
    /\ dnr_hsts[<<SMITH_JOHN, Zip02134>>].count = 3
    /\ cmp_hsts[<<C001, Zip02134, 2017>>].amounts = <<4000, 7525>>
    /\ Len(emitted) = 2
    /\ Field(emitted[2].row, 2) = Zip02134

(***************************************************************************)
(* C19: after any prefix of the input, the campaigns hold together as many *)
(* amounts as rows were emitted, each campaign as many as rows were        *)
(* emitted for its key, and at most the sum over the donors of count - 1;  *)
(* and no row was emitted for, and so no amount inserted from, the first   *)
(* validated record of a donor.                                            *)
(***************************************************************************)
RECURSIVE TotalAmounts(_)
TotalAmounts(Ks) ==
    IF Ks = {} THEN 0
    ELSE LET K == CHOOSE x \in Ks : TRUE
         IN  Len(cmp_hsts[K].amounts) + TotalAmounts(Ks \ {K})

RECURSIVE RepeatsOfDonors(_)
\* the sum of count - 1 over the donor keys dks
RepeatsOfDonors(dks) ==
    IF dks = {} THEN 0
    ELSE LET dk == CHOOSE x \in dks : TRUE
         IN  (dnr_hsts[dk].count - 1) + RepeatsOfDonors(dks \ {dk})

C19_AmountsAreEmittedRepeats ==
    /\ TotalAmounts(DOMAIN cmp_hsts) = Len(emitted)
    /\ TotalAmounts(DOMAIN cmp_hsts) <= RepeatsOfDonors(DOMAIN dnr_hsts)
    /\ \A K \in DOMAIN cmp_hsts :
           Len(cmp_hsts[K].amounts)
               = Cardinality({e \in 1..Len(emitted) :
                     RecCampaignKey(input_fp[emitted[e].i + 1]) = K})
    /\ \A e \in 1..Len(emitted) :
           LET j == emitted[e].i + 1
           IN  \E m \in 1..(j - 1) :
                   /\ Validated(input_fp[m])
                   /\ RecDonorKey(input_fp[m]) = RecDonorKey(input_fp[j])

\* two amounts are held, fewer than the three records that were not the
\* first of their donor
C19_Witness ==
    /\ Len(emitted) = 2
    /\ TotalAmounts(DOMAIN cmp_hsts) = 2
    /\ RepeatsOfDonors(DOMAIN dnr_hsts) = 3

====
